---- MODULE Spec2Model ----
(***************************************************************************)
(* State-machine model of chemprop/models/model.py: the MoleculeModel      *)
(* class (constructor, create_encoder, create_ffn, featurize, forward) and *)
(* build_model.  Tensors are abstracted to their shapes; the feed-forward  *)
(* head is the ordered list of its stages, and a call records the stages   *)
(* and post-processing steps it applied, in order.                         *)
(***************************************************************************)
EXTENDS Integers, Sequences, FiniteSets, TLC

\* ---- bounds of the explored configurations ----
MaxTasks   == 2
MaxClasses == 3
MaxDepth   == 4
MaxWidth   == 2
MaxBatch   == 2
MaxBuilds  == 2
\* the one width tried for args.hidden_size, features_size and features_dim
HiddenSize   == 2
FeaturesSize == 4
FeaturesDim  == 1

DatasetTypes == {"regression", "classification", "multiclass"}

VARIABLES
  args,     \* the argparse Namespace handed to build_model (field -> value)
  model,    \* the MoleculeModel most recently constructed (NoModel if none)
  out,      \* what the last forward / featurize call on model did
  call,     \* the last constructor-level call and its arguments
  err,      \* "none", or the exception the last construction raised
  nbuilds   \* number of build_model calls made on args (capped)

vars == <<args, model, out, call, err, nbuilds>>

\* ---- stages of the feed-forward head ----
\* nn.Dropout(args.dropout): one module object, reused at every position
dropout == [kind |-> "dropout", in |-> 0, out |-> 0, to |-> "-"]

\* get_activation_function(args.activation): one module object, reused
activation == [kind |-> "activation", in |-> 0, out |-> 0, to |-> "-"]

\* nn.Linear(i, o); "to" names the args field the output width was read from
Linear(i, o, field) == [kind |-> "linear", in |-> i, out |-> o, to |-> field]

\* width of the vector a stage list produces from a vector of width w
RECURSIVE Width(_, _)
Width(stages, w) ==
  IF stages = <<>> THEN w
  ELSE Width(Tail(stages),
             IF Head(stages).kind = "linear" THEN Head(stages).out ELSE w)

\* ---- the model object ----
NoModel ==
  [state |-> "absent", featurizer |-> FALSE, classification |-> FALSE,
   multiclass |-> FALSE, sigmoid |-> FALSE, multiclass_softmax |-> FALSE,
   num_classes |-> 0, encoder |-> 0, ffn |-> <<>>, training |-> TRUE]

\* result of a constructor call whose assertion failed
Raised == [NoModel EXCEPT !.state = "AssertionError"]

\* MoleculeModel.__init__ without the mutual-exclusion assertion (mutant)
MoleculeModel_no_assert(featurizer, classification, multiclass) ==
  [NoModel EXCEPT !.state = "init",
                  !.featurizer = featurizer,
                  !.classification = classification,
                  !.multiclass = multiclass,
                  !.sigmoid = (~featurizer /\ classification),
                  !.multiclass_softmax = (~featurizer /\ multiclass),
                  !.training = TRUE]

\* MoleculeModel.__init__
MoleculeModel(featurizer, classification, multiclass) ==
  IF classification /\ multiclass
  THEN Raised
  ELSE [NoModel EXCEPT !.state = "init",
                       !.featurizer = featurizer,
                       !.classification = classification,
                       !.multiclass = multiclass,
                       !.sigmoid = (~featurizer /\ classification),
                       !.multiclass_softmax = (~featurizer /\ multiclass),
                       !.training = TRUE]

\* MPN(args): the message passing encoder, represented by its output width
MPN(a) ==
  IF a.features_only THEN a.features_size
  ELSE a.hidden_size + (IF a.use_input_features THEN a.features_dim ELSE 0)

\* MoleculeModel.create_encoder
create_encoder(self, a) == [self EXCEPT !.encoder = MPN(a)]

\* first_linear_dim as computed at the top of create_ffn
first_linear_dim(a) ==
  IF a.features_only THEN a.features_size
  ELSE a.hidden_size + (IF a.use_input_features THEN a.features_dim ELSE 0)

\* the body of "for _ in range(n): ffn.extend([activation, dropout, Linear])"
RECURSIVE HiddenStages(_, _)
HiddenStages(n, a) ==
  IF n <= 0 THEN <<>>
  ELSE <<activation, dropout,
         Linear(a.ffn_hidden_size, a.ffn_hidden_size, "ffn_hidden_size")>>
       \o HiddenStages(n - 1, a)

\* create_ffn with the loop running range(ffn_num_layers - 1) (mutant)
create_ffn_extra_layer(self, a) ==
  LET ffn ==
        IF a.ffn_num_layers = 1
        THEN <<dropout, Linear(first_linear_dim(a), a.output_size, "output_size")>>
        ELSE <<dropout, Linear(first_linear_dim(a), a.ffn_hidden_size, "ffn_hidden_size")>>
             \o HiddenStages(a.ffn_num_layers - 1, a)
             \o (IF ~self.featurizer
                 THEN <<activation, dropout,
                        Linear(a.ffn_hidden_size, a.output_size, "output_size")>>
                 ELSE <<>>)
  IN [self EXCEPT !.num_classes = IF self.multiclass
                                  THEN a.multiclass_num_classes ELSE @,
                  !.ffn = ffn,
                  !.state = "built"]

\* MoleculeModel.create_ffn
create_ffn(self, a) ==
  LET ffn ==
        IF a.ffn_num_layers = 1
        THEN <<dropout, Linear(first_linear_dim(a), a.output_size, "output_size")>>
        ELSE <<dropout, Linear(first_linear_dim(a), a.ffn_hidden_size, "ffn_hidden_size")>>
             \o HiddenStages(a.ffn_num_layers - 2, a)
             \o (IF ~self.featurizer
                 THEN <<activation, dropout,
                        Linear(a.ffn_hidden_size, a.output_size, "output_size")>>
                 ELSE <<>>)
  IN [self EXCEPT !.num_classes = IF self.multiclass
                                  THEN a.multiclass_num_classes ELSE @,
                  !.ffn = ffn,
                  !.state = "built"]

\* ---- calls on a built model ----
NoOut ==
  [op |-> "none", batch |-> 0, training |-> TRUE,
   stages |-> <<>>, post |-> <<>>, shape |-> <<>>]

\* MoleculeModel.featurize: self.ffn[:-1] applied to the encoder output
featurize(self, batch) ==
  LET stages == SubSeq(self.ffn, 1, Len(self.ffn) - 1)
  IN [op |-> "featurize", batch |-> batch, training |-> self.training,
      stages |-> stages, post |-> <<>>,
      shape |-> <<batch, Width(stages, self.encoder)>>]

\* output.reshape((output.size(0), -1, num_classes)) on a [batch, w] tensor
reshape(batch, w, num_classes) ==
  IF w % num_classes = 0
  THEN <<batch, w \div num_classes, num_classes>>
  ELSE <<>>

\* forward applying the sigmoid in every run-mode (mutant)
forward_sigmoid_always(self, batch) ==
  LET w == Width(self.ffn, self.encoder)
      base == [op |-> "forward", batch |-> batch, training |-> self.training,
               stages |-> self.ffn, post |-> <<>>, shape |-> <<batch, w>>]
  IN IF self.featurizer THEN base
     ELSE [base EXCEPT
             !.post = (IF self.classification THEN <<"sigmoid">> ELSE <<>>)
                      \o (IF self.multiclass THEN <<"reshape">> ELSE <<>>)
                      \o (IF self.multiclass /\ ~self.training
                          THEN <<"softmax">> ELSE <<>>),
             !.shape = IF self.multiclass
                       THEN reshape(batch, w, self.num_classes) ELSE @]

\* forward reshaping to [batch, classes, -1] (mutant)
forward_reshape_swapped(self, batch) ==
  LET w == Width(self.ffn, self.encoder)
      base == [op |-> "forward", batch |-> batch, training |-> self.training,
               stages |-> self.ffn, post |-> <<>>, shape |-> <<batch, w>>]
  IN IF self.featurizer THEN base
     ELSE [base EXCEPT
             !.post = (IF self.classification /\ ~self.training
                       THEN <<"sigmoid">> ELSE <<>>)
                      \o (IF self.multiclass THEN <<"reshape">> ELSE <<>>)
                      \o (IF self.multiclass /\ ~self.training
                          THEN <<"softmax">> ELSE <<>>),
             !.shape = IF self.multiclass
                       THEN IF w % self.num_classes = 0
                            THEN <<batch, self.num_classes, w \div self.num_classes>>
                            ELSE <<>>
                       ELSE @]

\* forward without the early return of featurizer mode (mutant)
forward_no_featurizer_return(self, batch) ==
  LET w == Width(self.ffn, self.encoder)
      base == [op |-> "forward", batch |-> batch, training |-> self.training,
               stages |-> self.ffn, post |-> <<>>, shape |-> <<batch, w>>]
  IN [base EXCEPT
        !.post = (IF self.classification /\ ~self.training
                  THEN <<"sigmoid">> ELSE <<>>)
                 \o (IF self.multiclass THEN <<"reshape">> ELSE <<>>)
                 \o (IF self.multiclass /\ ~self.training
                     THEN <<"softmax">> ELSE <<>>),
        !.shape = IF self.multiclass
                  THEN reshape(batch, w, self.num_classes) ELSE @]

\* MoleculeModel.forward
forward(self, batch) ==
  LET w == Width(self.ffn, self.encoder)
      base == [op |-> "forward", batch |-> batch, training |-> self.training,
               stages |-> self.ffn, post |-> <<>>, shape |-> <<batch, w>>]
  IN IF self.featurizer THEN base
     ELSE [base EXCEPT
             !.post = (IF self.classification /\ ~self.training
                       THEN <<"sigmoid">> ELSE <<>>)
                      \o (IF self.multiclass THEN <<"reshape">> ELSE <<>>)
                      \o (IF self.multiclass /\ ~self.training
                          THEN <<"softmax">> ELSE <<>>),
             !.shape = IF self.multiclass
                       THEN reshape(batch, w, self.num_classes) ELSE @]

\* ---- build_model ----
\* args with attribute f set to v (the attribute is created when absent)
SetAttr(a, f, v) ==
  [g \in (DOMAIN a) \cup {f} |-> IF g = f THEN v ELSE a[g]]

\* the three constructor / create_* calls of build_model
Assemble(a) ==
  create_ffn(
    create_encoder(
      MoleculeModel(a.featurizer,
                    a.dataset_type = "classification",
                    a.dataset_type = "multiclass"),
      a),
    a)

\* build_model multiplying the stored width without resetting it (mutant)
build_model_compounding(a) ==
  LET a1 == IF "output_size" \in DOMAIN a
            THEN a ELSE SetAttr(a, "output_size", a.num_tasks)
      a2 == IF a1.dataset_type = "multiclass"
            THEN SetAttr(a1, "output_size",
                         a1.output_size * a1.multiclass_num_classes)
            ELSE a1
  IN [args |-> a2, model |-> Assemble(a2)]

\* build_model scaling num_tasks along with output_size (mutant)
build_model_scales_num_tasks(a) ==
  LET a1 == SetAttr(a, "output_size", a.num_tasks)
      a2 == IF a1.dataset_type = "multiclass"
            THEN SetAttr(SetAttr(a1, "output_size",
                                 a1.output_size * a1.multiclass_num_classes),
                         "num_tasks",
                         a1.num_tasks * a1.multiclass_num_classes)
            ELSE a1
  IN [args |-> a2, model |-> Assemble(a2)]

\* build_model: the Namespace as it leaves the call, and the model returned
build_model(a) ==
  LET a1 == SetAttr(a, "output_size", a.num_tasks)
      a2 == IF a1.dataset_type = "multiclass"
            THEN SetAttr(a1, "output_size",
                         a1.output_size * a1.multiclass_num_classes)
            ELSE a1
  IN [args |-> a2, model |-> Assemble(a2)]

\* ---- the state machine ----
NoCall ==
  [op |-> "none", featurizer |-> FALSE, classification |-> FALSE,
   multiclass |-> FALSE]

Init ==
  /\ args \in [num_tasks : 1..MaxTasks,
               dataset_type : DatasetTypes,
               multiclass_num_classes : 2..MaxClasses,
               featurizer : BOOLEAN,
               features_only : BOOLEAN,
               features_size : {FeaturesSize},
               hidden_size : {HiddenSize},
               use_input_features : BOOLEAN,
               features_dim : {FeaturesDim},
               ffn_num_layers : 1..MaxDepth,
               ffn_hidden_size : 1..MaxWidth]
  /\ model = NoModel
  /\ out = NoOut
  /\ call = NoCall
  /\ err = "none"
  /\ nbuilds = 0

\* a direct call of the constructor, MoleculeModel(f, c, m)
Construct(f, c, m) ==
  LET r == MoleculeModel(f, c, m)
  IN /\ call' = [op |-> "MoleculeModel", featurizer |-> f,
                 classification |-> c, multiclass |-> m]
     /\ IF r.state = "AssertionError"
        THEN model' = NoModel /\ err' = "AssertionError"
        ELSE model' = r /\ err' = "none"
     /\ out' = NoOut
     /\ UNCHANGED <<args, nbuilds>>

\* model = build_model(args)
BuildModel ==
  /\ nbuilds < MaxBuilds
  /\ LET r == build_model(args)
     IN /\ args' = r.args
        /\ call' = [op |-> "build_model", featurizer |-> args.featurizer,
                    classification |-> (args.dataset_type = "classification"),
                    multiclass |-> (args.dataset_type = "multiclass")]
        /\ IF r.model.state = "AssertionError"
           THEN model' = NoModel /\ err' = "AssertionError"
           ELSE model' = r.model /\ err' = "none"
  /\ out' = NoOut
  /\ nbuilds' = nbuilds + 1

\* model.train(): nn.Module run-mode switch
Train ==
  /\ model.state \in {"init", "built"}
  /\ model' = [model EXCEPT !.training = TRUE]
  /\ UNCHANGED <<args, out, call, err, nbuilds>>

\* model.eval(): nn.Module run-mode switch
Eval ==
  /\ model.state \in {"init", "built"}
  /\ model' = [model EXCEPT !.training = FALSE]
  /\ UNCHANGED <<args, out, call, err, nbuilds>>

\* model(x) on a batch of the given size
Forward(batch) ==
  /\ model.state = "built"
  /\ out' = forward(model, batch)
  /\ UNCHANGED <<args, model, call, err, nbuilds>>

\* model.featurize(x) on a batch of the given size
Featurize(batch) ==
  /\ model.state = "built"
  /\ out' = featurize(model, batch)
  /\ UNCHANGED <<args, model, call, err, nbuilds>>

Next ==
  \/ \E f \in BOOLEAN, c \in BOOLEAN, m \in BOOLEAN : Construct(f, c, m)
  \/ BuildModel
  \/ Train
  \/ Eval
  \/ \E b \in 1..MaxBatch : Forward(b)
  \/ \E b \in 1..MaxBatch : Featurize(b)

Spec == Init /\ [][Next]_vars

\* ---- properties ----

\* the output width the task type calls for
ExpectedOutputSize(a) ==
  IF a.dataset_type = "multiclass"
  THEN a.num_tasks * a.multiclass_num_classes
  ELSE a.num_tasks

\* the model build_model would return for args with featurizer forced on
FeaturizerTwin ==
  create_ffn(
    create_encoder(
      MoleculeModel(TRUE, model.classification, model.multiclass), args),
    args)

\* C1: featurize on a model built with featurizer=false applies exactly the
\* stage sequence that forward applies on the otherwise-identical model built
\* with featurizer=true, for every depth >= 1.
C1_FeaturizeMatchesFeaturizerForward ==
  (out.op = "featurize" /\ ~model.featurizer)
    => out.stages = forward(FeaturizerTwin, out.batch).stages

\* C2: a model built with featurizer=true has, at every depth >= 1, no linear
\* stage whose output width is the task output width, and forward applies none.
C2_FeaturizerHasNoProjection ==
  (model.state = "built" /\ model.featurizer)
    => /\ \A i \in 1..Len(model.ffn) :
            model.ffn[i].kind = "linear" => model.ffn[i].to # "output_size"
       /\ out.op = "forward" =>
            \A i \in 1..Len(out.stages) :
              out.stages[i].kind = "linear" => out.stages[i].to # "output_size"

\* C3: for every model of depth > 1, whatever its featurizer flag, task type
\* and output width, the vector featurize returns has the hidden width.
C3_FeaturizeWidthIsHidden ==
  (out.op = "featurize" /\ args.ffn_num_layers > 1)
    => out.shape = <<out.batch, args.ffn_hidden_size>>

\* C4: a constructor call with classification and multiclass both true raises
\* and leaves no model; a call with at most one of them true does not raise,
\* and build_model never raises on this check.
C4_MutualExclusion ==
  /\ call.op = "MoleculeModel" =>
       /\ (err = "AssertionError") <=> (call.classification /\ call.multiclass)
       /\ err = "AssertionError" => model = NoModel
       /\ err = "none" => model.state = "init"
  /\ call.op = "build_model" => (err = "none" /\ model.state = "built")

C4_Witness ==
  /\ call.op = "MoleculeModel"
  /\ call.classification /\ call.multiclass
  /\ err = "AssertionError"
  /\ model = NoModel

\* C5: on a classification, non-featurizer model a forward call applies the
\* sigmoid exactly when the run-mode at the time of the call is inference;
\* in training mode nothing is applied to the head output.
C5_SigmoidIffInference ==
  (out.op = "forward" /\ model.classification /\ ~model.featurizer)
    => /\ out.training => out.post = <<>>
       /\ ~out.training => out.post = <<"sigmoid">>
       /\ out.shape = <<out.batch, Width(model.ffn, model.encoder)>>

\* a forward call made in inference mode, the model toggled back to training
C5_Witness ==
  /\ out.op = "forward" /\ model.classification /\ ~model.featurizer
  /\ ~out.training /\ model.training
  /\ out.post = <<"sigmoid">>

\* C6: on a multiclass, non-featurizer model with T tasks and C classes the
\* head output has width T*C, forward reshapes it to [batch, T, C] in both
\* run-modes and applies the softmax exactly when the call is in inference.
C6_MulticlassReshapeAndSoftmax ==
  (out.op = "forward" /\ model.multiclass /\ ~model.featurizer)
    => /\ Width(out.stages, model.encoder)
            = args.num_tasks * args.multiclass_num_classes
       /\ out.shape = <<out.batch, args.num_tasks, args.multiclass_num_classes>>
       /\ out.training => out.post = <<"reshape">>
       /\ ~out.training => out.post = <<"reshape", "softmax">>

C6_Witness ==
  /\ out.op = "forward" /\ model.multiclass /\ ~model.featurizer
  /\ args.num_tasks # args.multiclass_num_classes
  /\ ~out.training
  /\ out.post = <<"reshape", "softmax">>
  /\ out.shape = <<out.batch, args.num_tasks, args.multiclass_num_classes>>

\* C7: forward applies no post-processing, in either run-mode, on a
\* regression model and on any featurizer-mode model, whatever its task type.
C7_NoPostProcessing ==
  (/\ out.op = "forward"
   /\ \/ model.featurizer
      \/ ~model.classification /\ ~model.multiclass)
    => /\ out.post = <<>>
       /\ out.stages = model.ffn
       /\ out.shape = <<out.batch, Width(model.ffn, model.encoder)>>

\* an inference-mode forward on a featurizer model of a multiclass data set
C7_Witness ==
  /\ out.op = "forward" /\ model.featurizer /\ model.multiclass
  /\ ~out.training
  /\ out.post = <<>>

\* C8: after every build_model call, repeated calls on the same args
\* included, output_size is tasks (regression, classification) or
\* tasks * classes (multiclass), and that is the width the head projects to.
C8_OutputSize ==
  /\ nbuilds >= 1 => args.output_size = ExpectedOutputSize(args)
  /\ (/\ model.state = "built"
      /\ ~model.featurizer \/ args.ffn_num_layers = 1)
       => model.ffn[Len(model.ffn)].out = ExpectedOutputSize(args)

\* a second build_model call on the same multiclass args
C8_Witness ==
  /\ nbuilds >= 2
  /\ args.dataset_type = "multiclass"
  /\ model.state = "built" /\ ~model.featurizer
  /\ args.output_size = args.num_tasks * args.multiclass_num_classes

\* stage i of the head the claim describes, for a head of the given depth
ExpectedStage(i, depth, a) ==
  LET k == (i + 1) \div 3
  IN CASE i % 3 = 1 -> "dropout"
       [] i % 3 = 0 -> "activation"
       [] OTHER -> <<"linear",
                     IF k = 1 THEN first_linear_dim(a) ELSE a.ffn_hidden_size,
                     IF k = depth THEN a.output_size ELSE a.ffn_hidden_size>>

\* a stage of the model, in the same terms
StageShape(s) ==
  IF s.kind = "linear" THEN <<"linear", s.in, s.out>> ELSE s.kind

\* C9: the head of a non-featurizer model of depth d is dropout, linear,
\* then d-1 times activation, dropout, linear: d linear stages, the first from
\* the input width, the last to the output width, the others hidden to hidden.
C9_HeadLayout ==
  (model.state = "built" /\ ~model.featurizer)
    => /\ Len(model.ffn) = 3 * args.ffn_num_layers - 1
       /\ \A i \in 1..Len(model.ffn) :
            StageShape(model.ffn[i]) = ExpectedStage(i, args.ffn_num_layers, args)
       /\ Cardinality({i \in 1..Len(model.ffn) : model.ffn[i].kind = "linear"})
            = args.ffn_num_layers

\* a head with two hidden-to-hidden repetitions
C9_Witness ==
  /\ model.state = "built" /\ ~model.featurizer
  /\ args.ffn_num_layers = 4
  /\ Len(model.ffn) = 11

\* C10 as stated: build_model leaves every field of args, and the set of
\* fields, as it found them.
C10_ArgsReadOnly ==
  [][/\ DOMAIN args' = DOMAIN args
     /\ \A f \in DOMAIN args : args'[f] = args[f]]_vars

\* C10: build_model writes exactly one field of args, output_size, which it
\* creates when absent and sets to the head's output width; every other
\* field keeps its value and no other field appears or disappears.
C10_OnlyOutputSizeWritten ==
  [][/\ DOMAIN args' \subseteq (DOMAIN args) \cup {"output_size"}
     /\ \A f \in (DOMAIN args) \ {"output_size"} :
          f \in DOMAIN args' /\ args'[f] = args[f]
     /\ nbuilds' # nbuilds =>
          /\ "output_size" \in DOMAIN args'
          /\ args'.output_size = ExpectedOutputSize(args)]_vars

\* args after a first build_model call on a multiclass configuration
C10_Witness ==
  /\ nbuilds >= 1
  /\ call.op = "build_model"
  /\ args.dataset_type = "multiclass"
  /\ "output_size" \in DOMAIN args
  /\ args.output_size = args.num_tasks * args.multiclass_num_classes

====
